---- MODULE Spec2Model ----
(***************************************************************************)
(* Model of src/src/bufpool.rs: the slab + free-list BufferPool, its       *)
(* Lease handle, the BufferAllocator capability and the Resize view.       *)
(*                                                                         *)
(* Indices are 0-based as in the source; the slab `entries` is a TLA+      *)
(* sequence, so entry i of the source is entries[i + 1] here (see At).     *)
(***************************************************************************)
EXTENDS Integers, Sequences, FiniteSets

(***************************************************************************)
(* Bounds of the exploration.                                              *)
(***************************************************************************)
\* number of buffers the allocator can supply before it only fails
MaxEntries == 4
\* number of failing allocate() calls explored
MaxFails == 2
\* length of the operation log kept by SpecTrace
MaxOps == 8
\* largest buffer size / requested length explored for Resize
MaxSize == 10
\* number of leases the holders of SpecUse keep at a time
MaxHeld == 2
\* number of handles to one variant-A pool
MaxHandles == 2
\* length of the large arrays a pool is explored with
LargeLen == 2048

(***************************************************************************)
(* Program constants.                                                      *)
(***************************************************************************)
\* const FREE_LIST_END: usize = usize::MAX (the largest value of the
\* model's index type; a Vec of entries can never be that long)
FREE_LIST_END == 2147483647

\* the values of A::Error the allocator may return
AllocErrors == {"OutOfMemory", "Exhausted"}
\* placeholder of `last.err` when the last operation returned no error
NoErr == "none"

VARIABLES
    entries,     \* PoolInner.entries: Seq of [buffer, next_free]
    free_head,   \* PoolInner.free_head
    leases,      \* the live Lease values, oldest first: Seq of Lease.index
    allocCalls,  \* number of BufferAllocator::allocate invocations so far
    allocOk,     \* number of those that returned Ok
    highWater,   \* largest number of simultaneously live leases so far
    allocRet,    \* what the last allocate() invocation returned
    last,        \* the last pool operation and what it returned
    prev,        \* the pool operation before the last one
    panicked,    \* an index-out-of-bounds panic has happened
    bufType,     \* the pool's A::Buffer type: [kind, len]
    slab,        \* heap block of the Vec `entries`: [cap, base]
    trace,       \* log of the pool operations (kept by SpecTrace only)
    rz,          \* a Resize<B> value: [buf, len]
    rlast,       \* the last Resize operation and its arguments
    sb,          \* a buffer used directly, not through a pool or a Resize
    did,         \* the last use of a buffer through the Buffer capability
    va           \* the shared-ownership pool (variant A) and its leases

poolVars == <<entries, free_head, leases, allocCalls, allocOk, highWater,
              allocRet, last, prev, panicked, bufType, slab>>
rzVars == <<rz, rlast>>
extVars == <<sb, did, va>>
vars == <<entries, free_head, leases, allocCalls, allocOk, highWater,
          allocRet, last, prev, panicked, bufType, slab, trace, rz, rlast,
          sb, did, va>>

(***************************************************************************)
(* Helpers.                                                                *)
(***************************************************************************)
\* entries[i] of the source (0-based)
At(es, i) == es[i + 1]

\* Vec indexing entries[i] is in bounds
InBounds(es, i) == i >= 0 /\ i < Len(es)

\* entries[i].next_free = v
SetNextFree(es, i, v) == [es EXCEPT ![i + 1].next_free = v]

\* Deref / DerefMut for Lease (lines 196-199, 204-207):
\* &inner.entries[self.index].buffer
DerefLease(es, index) == At(es, index).buffer

\* the slab after the holder of `index` has changed its buffer to `b`
\* through DerefMut
SetBuffer(es, index, b) == [es EXCEPT ![index + 1].buffer = b]

\* a use of a buffer: what was called and, for a lease, its index
Did(op, index) == [op |-> op, index |-> index]

\* the sequence s without its k-th element
RemoveAt(s, k) == SubSeq(s, 1, k - 1) \o SubSeq(s, k + 1, Len(s))

\* what the last operation did: op, the lease index involved, the error
\* returned and the number of allocate() calls the operation made
Op(op, index, err, allocs) ==
    [op |-> op, index |-> index, err |-> err, allocs |-> allocs]

(***************************************************************************)
(* Buffers (lines 7-61).  A buffer value is [id, kind, size, cap, data]:   *)
(* the identity the allocator gave it, its storage kind, what Buffer::size *)
(* reports, the bytes of backing storage it owns, and its content.         *)
(***************************************************************************)
\* the sized storage kinds: [u8; N], Vec<u8>, Box<[u8]>
BufferKinds == {"array", "vec", "boxed"}

\* a fresh buffer of `n` bytes
MkBuf(kind, n, id) ==
    [id |-> id, kind |-> kind, size |-> n, cap |-> n, data |-> "fresh"]

\* no buffer
NoBuffer == [id |-> 0, kind |-> "none", size |-> 0, cap |-> 0, data |-> "none"]

\* Buffer::size of the storage kinds (lines 18-20, 30-32, 42-44, 56-58)
BufSize(buf) == buf.size

\* reset that also gives the storage of a Vec<u8> back
BufResetRelease(buf) ==
    IF buf.kind = "vec" THEN [buf EXCEPT !.size = 0, !.cap = 0] ELSE buf

\* Buffer::reset (lines 10, 22, 34, 46-48, 60): Vec::clear for a Vec<u8>,
\* which sets its length to 0 and keeps its storage; nothing for the others
BufReset(buf) == IF buf.kind = "vec" THEN [buf EXCEPT !.size = 0] ELSE buf

\* the contents a lease holder writes into a buffer
DataValues == {"a", "b"}

\* a write of `v` through the &mut A::Buffer of DerefMut
BufWrite(buf, v) == [buf EXCEPT !.data = v]

\* the buffer types a pool is explored with: arrays small and large enough
\* to change the growth of the slab, a Vec<u8> and a Box<[u8]>
PoolBufTypes ==
    {[kind |-> "array", len |-> MaxSize], [kind |-> "array", len |-> LargeLen],
     [kind |-> "vec", len |-> MaxSize], [kind |-> "boxed", len |-> MaxSize]}

\* size_of::<Entry<T>>() on a 64-bit target: the buffer value held inline
\* (the array itself, or the 24-byte Vec / 16-byte Box handle) and the
\* 8-byte next_free, rounded up to the 8-byte alignment of usize
EntrySize(t) ==
    IF t.kind = "array" THEN ((t.len + 7) \div 8) * 8 + 8
    ELSE IF t.kind = "vec" THEN 32
    ELSE 24

\* the capacity Vec::push gives a full Vec of `len` elements: doubled, at
\* least len + 1 and at least 4 (1 for elements above 1024 bytes)
GrowCap(cap, len, elemSize) ==
    LET want == IF cap * 2 < len + 1 THEN len + 1 ELSE cap * 2
        least == IF elemSize <= 1024 THEN 4 ELSE 1
    IN  IF want < least THEN least ELSE want

\* the heap block of `entries` after entries.push on `len` elements
\* (line 165): a full Vec is reallocated to the grown capacity, and the
\* reallocation extends the block in place or moves it to a new address
SlabAfterPush(sl, len, t) ==
    IF len < sl.cap THEN {sl}
    ELSE {[cap |-> GrowCap(sl.cap, len, EntrySize(t)), base |-> b] :
            b \in IF sl.cap = 0 THEN {sl.base + 1} ELSE {sl.base, sl.base + 1}}

\* Buffer::ptr (lines 14-16, 38-40, 52-54) of entries[index].buffer: an
\* array lies inside the entry, in the heap block of `entries`; a Vec or a
\* Box points to a heap block of its own
Ptr(buf, sl, index) ==
    IF buf.kind = "array"
    THEN [region |-> "entries", block |-> sl.base, off |-> index]
    ELSE [region |-> "heap", block |-> buf.id, off |-> 0]

\* the allocator has not been invoked yet
NoAlloc == [ok |-> FALSE, buffer |-> NoBuffer, err |-> NoErr]

(***************************************************************************)
(* BufferPool::new                                                         *)
(***************************************************************************)
PoolInit ==
    /\ entries = <<>>
    /\ free_head = FREE_LIST_END
    /\ leases = <<>>
    /\ allocCalls = 0
    /\ allocOk = 0
    /\ highWater = 0
    /\ allocRet = NoAlloc
    /\ last = Op("new", FREE_LIST_END, NoErr, 0)
    /\ prev = Op("none", FREE_LIST_END, NoErr, 0)
    /\ panicked = FALSE
    /\ bufType \in PoolBufTypes
    /\ slab = [cap |-> 0, base |-> 0]

(***************************************************************************)
(* BufferAllocator::allocate: a fallible factory.  The trait leaves the    *)
(* outcome to the implementation, so every outcome is explored: a fresh    *)
(* buffer (named by its serial number) while the supply lasts, or any      *)
(* error.                                                                  *)
(***************************************************************************)
AllocOutcomes ==
    {[ok |-> TRUE, buffer |-> MkBuf(bufType.kind, bufType.len, allocOk + 1),
      err |-> NoErr] : x \in
        IF allocOk < MaxEntries THEN {0} ELSE {}}
    \cup
    {[ok |-> FALSE, buffer |-> NoBuffer, err |-> e] : e \in
        IF allocCalls - allocOk < MaxFails THEN AllocErrors ELSE {}}

\* PopFree with the head left where it was: the issued entry stays on the list
PopFreeKeepHead(es, fh) ==
    [entries   |-> SetNextFree(es, fh, FREE_LIST_END),
     free_head |-> fh,
     index     |-> fh]

\* PopFree that leaves the issued entry's link as it was
PopFreeNoClear(es, fh) ==
    [entries   |-> es,
     free_head |-> At(es, fh).next_free,
     index     |-> fh]

(***************************************************************************)
(* BufferPool::lease, free-list hit (lines 157-160):                       *)
(*   idx = free_head; free_head = entries[idx].next_free;                  *)
(*   entries[idx].next_free = FREE_LIST_END; idx                           *)
(***************************************************************************)
PopFree(es, fh) ==
    [entries   |-> SetNextFree(es, fh, FREE_LIST_END),
     free_head |-> At(es, fh).next_free,
     index     |-> fh]

\* PushEntry returning the length after the push instead of before it
PushEntryOffByOne(es, fh, buf) ==
    [entries   |-> Append(es, [buffer |-> buf, next_free |-> FREE_LIST_END]),
     free_head |-> fh,
     index     |-> Len(es) + 1]

\* PushEntry that puts the new entry first, moving every other entry up
PushEntryFront(es, fh, buf) ==
    [entries   |-> <<[buffer |-> buf, next_free |-> FREE_LIST_END]>> \o es,
     free_head |-> fh,
     index     |-> 0]

(***************************************************************************)
(* BufferPool::lease, free-list miss after a successful allocation         *)
(* (lines 164-169): idx = entries.len(); entries.push(Entry {..}); idx     *)
(***************************************************************************)
PushEntry(es, fh, buf) ==
    [entries   |-> Append(es, [buffer |-> buf, next_free |-> FREE_LIST_END]),
     free_head |-> fh,
     index     |-> Len(es)]

\* PushFree that forgets the rest of the list: the link is cleared
PushFreeDropTail(es, fh, index) ==
    [entries   |-> SetNextFree(es, index, FREE_LIST_END),
     free_head |-> index]

\* PushFree that links the entry but never moves the head to it
PushFreeNoHead(es, fh, index) ==
    [entries   |-> SetNextFree(es, index, fh),
     free_head |-> fh]

\* the last entry of the list starting at i (i is on the list)
RECURSIVE ListTail(_, _)
ListTail(es, i) ==
    IF At(es, i).next_free = FREE_LIST_END THEN i
    ELSE ListTail(es, At(es, i).next_free)

\* PushFree at the tail of the list: first released, first reused
PushFreeFifo(es, fh, index) ==
    IF fh = FREE_LIST_END
    THEN [entries |-> SetNextFree(es, index, FREE_LIST_END), free_head |-> index]
    ELSE [entries   |-> SetNextFree(SetNextFree(es, index, FREE_LIST_END),
                                    ListTail(es, fh), index),
          free_head |-> fh]

\* PushFree that gives the buffer back when it is the last of the slab
PushFreeShrink(es, fh, index) ==
    IF index = Len(es) - 1
    THEN [entries |-> SubSeq(es, 1, Len(es) - 1), free_head |-> fh]
    ELSE [entries |-> SetNextFree(es, index, fh), free_head |-> index]

\* PushFree with its two writes in the other order: the entry links to itself
PushFreeSwapped(es, fh, index) ==
    [entries   |-> SetNextFree(es, index, index),
     free_head |-> index]

\* PushFree that also resets the released buffer to its fresh content
PushFreeReset(es, fh, index) ==
    [entries   |-> SetBuffer(SetNextFree(es, index, fh), index,
                             [At(es, index).buffer EXCEPT !.data = "fresh"]),
     free_head |-> index]

(***************************************************************************)
(* Drop for Lease (lines 187-188):                                         *)
(*   entries[index].next_free = free_head; free_head = index               *)
(***************************************************************************)
PushFree(es, fh, index) ==
    [entries   |-> SetNextFree(es, index, fh),
     free_head |-> index]

\* the free-list test never finding an idle entry
HasFreeNever(fh) == FALSE

\* the free-list test of lease(), line 155
HasFree(fh) == fh # FREE_LIST_END

\* usize::max of the live-lease count (bookkeeping of the high-water mark)
MaxOf(a, b) == IF a < b THEN b ELSE a

\* Ok(Lease { pool: self, index, .. }) (lines 172-176): the pool state after
\* the branch `r` of lease() and the new live lease
LeaseOk(r, allocs) ==
    /\ entries' = r.entries
    /\ free_head' = r.free_head
    /\ leases' = Append(leases, r.index)
    /\ highWater' = MaxOf(highWater, Len(leases) + 1)
    /\ last' = Op("lease", r.index, NoErr, allocs)
    /\ UNCHANGED panicked

\* a failing lease() that has already reserved a slot for the buffer
LeaseErrPartial(e) ==
    /\ last' = Op("lease_err", FREE_LIST_END, e, 1)
    /\ entries' = Append(entries, [buffer |-> NoBuffer, next_free |-> FREE_LIST_END])
    /\ UNCHANGED <<free_head, leases, highWater, panicked>>

\* `inner.allocator.allocate()?` returning Err(e) (line 163): lease() returns
\* the error at once
LeaseErr(e) ==
    /\ last' = Op("lease_err", FREE_LIST_END, e, 1)
    /\ UNCHANGED <<entries, free_head, leases, highWater, panicked>>

\* an index-out-of-bounds panic of entries[..]
Panic(op, index) ==
    /\ panicked' = TRUE
    /\ last' = Op(op, index, NoErr, 0)
    /\ UNCHANGED <<entries, free_head, leases, highWater, allocCalls, allocOk,
                   allocRet>>

(***************************************************************************)
(* BufferPool::lease (lines 151-177), the whole call.                      *)
(***************************************************************************)
LeaseStep ==
    /\ ~panicked
    /\ prev' = last
    /\ UNCHANGED bufType
    /\ IF HasFree(free_head)
       THEN /\ UNCHANGED slab
            /\ IF InBounds(entries, free_head)
               THEN /\ LeaseOk(PopFree(entries, free_head), 0)
                    /\ UNCHANGED <<allocCalls, allocOk, allocRet>>
               ELSE Panic("lease_panic", free_head)
       ELSE \E a \in AllocOutcomes :
              /\ allocCalls' = allocCalls + 1
              /\ allocRet' = a
              /\ IF a.ok
                 THEN /\ allocOk' = allocOk + 1
                      /\ LeaseOk(PushEntry(entries, free_head, a.buffer), 1)
                      /\ slab' \in SlabAfterPush(slab, Len(entries), bufType)
                 ELSE /\ allocOk' = allocOk
                      /\ LeaseErr(a.err)
                      /\ UNCHANGED slab

(***************************************************************************)
(* Drop for Lease (lines 180-190) of the k-th live lease.  Leases may be   *)
(* dropped in any order.                                                   *)
(***************************************************************************)
DropStep(k) ==
    /\ ~panicked
    /\ prev' = last
    /\ UNCHANGED <<allocRet, bufType, slab>>
    /\ k \in DOMAIN leases
    /\ LET index == leases[k] IN
       IF InBounds(entries, index)
       THEN LET r == PushFree(entries, free_head, index) IN
            /\ entries' = r.entries
            /\ free_head' = r.free_head
            /\ leases' = RemoveAt(leases, k)
            /\ last' = Op("drop", index, NoErr, 0)
            /\ UNCHANGED <<highWater, allocCalls, allocOk, panicked>>
       ELSE /\ leases' = RemoveAt(leases, k)
            /\ panicked' = TRUE
            /\ last' = Op("drop_panic", index, NoErr, 0)
            /\ UNCHANGED <<entries, free_head, highWater, allocCalls, allocOk>>

\* a use of the buffer of the k-th live lease through `lease.deref_mut()`:
\* `b` is the buffer as the holder leaves it
\* (`last` and `prev` log the pool's own operations, not these)
UseStep(k, b) ==
    /\ ~panicked
    /\ k \in DOMAIN leases
    /\ UNCHANGED <<free_head, leases, allocCalls, allocOk, highWater, allocRet,
                   bufType, slab, prev>>
    /\ LET index == leases[k] IN
       IF InBounds(entries, index)
       THEN /\ entries' = SetBuffer(entries, index, b)
            /\ UNCHANGED <<last, panicked>>
       ELSE /\ panicked' = TRUE
            /\ last' = Op("deref_panic", index, NoErr, 0)
            /\ UNCHANGED entries

\* the holder of the k-th live lease writes `v` into its buffer
WriteStep(k, v) ==
    UseStep(k, BufWrite(DerefLease(entries, leases[k]), v))

\* Buffer::reset for Lease (lines 218-220): (**self).reset()
LeaseResetStep(k) ==
    UseStep(k, BufReset(DerefLease(entries, leases[k])))

(***************************************************************************)
(* Resize<B> (lines 63-100): a buffer and the clamped length of the view.   *)
(***************************************************************************)
\* usize::min as Ord::min computes it: the second argument only when it is
\* strictly smaller
UsizeMin(a, b) == IF b < a THEN b ELSE a

\* Resize::new_with_size (lines 90-95)
NewWithSize(buf, len) == [buf |-> buf, len |-> UsizeMin(BufSize(buf), len)]

\* Resize::new (lines 83-88)
ResizeNew(buf) == [buf |-> buf, len |-> BufSize(buf)]

\* resize that stores the requested length unclamped
ResizeToAssign(r, len) == [r EXCEPT !.len = len]

\* Resize::resize (lines 97-99)
ResizeTo(r, len) == [r EXCEPT !.len = UsizeMin(r.len, len)]

\* Buffer::reset of a Resize (lines 77-79): self.buf.reset()
ResizeReset(r) == [r EXCEPT !.buf = BufReset(r.buf)]

\* Buffer::size of a Resize (lines 73-75)
ResizeSize(r) == r.len

\* no Resize has been constructed yet
NoResize == [buf |-> NoBuffer, len |-> 0]

ROp(op, arg, before) == [op |-> op, arg |-> arg, before |-> before]

RzInit ==
    /\ rz = NoResize
    /\ rlast = ROp("none", 0, 0)

Buffers == {MkBuf(kind, n, 0) : kind \in BufferKinds, n \in 0..MaxSize}

\* let r = Resize::new(buf)
RNew ==
    \E buf \in Buffers :
        /\ rz' = ResizeNew(buf)
        /\ rlast' = ROp("new", BufSize(buf), BufSize(buf))
        /\ did' = Did("resize.new", 0)
        /\ UNCHANGED <<poolVars, trace, sb, va>>

\* let r = Resize::new_with_size(buf, n)
RNewWithSize ==
    \E buf \in Buffers, n \in 0..MaxSize + 1 :
        /\ rz' = NewWithSize(buf, n)
        /\ rlast' = ROp("new_with_size", n, BufSize(buf))
        /\ did' = Did("resize.new_with_size", 0)
        /\ UNCHANGED <<poolVars, trace, sb, va>>

\* r.resize(m)
RResize ==
    \E m \in 0..MaxSize + 1 :
        /\ rz.buf.kind # "none"
        /\ rz' = ResizeTo(rz, m)
        /\ rlast' = ROp("resize", m, ResizeSize(rz))
        /\ did' = Did("resize.resize", 0)
        /\ UNCHANGED <<poolVars, trace, sb, va>>

\* r.reset()
RReset ==
    /\ rz.buf.kind # "none"
    /\ rz' = ResizeReset(rz)
    /\ rlast' = ROp("reset", 0, ResizeSize(rz))
    /\ did' = Did("resize.reset", 0)
    /\ UNCHANGED <<poolVars, trace, sb, va>>

(***************************************************************************)
(* A buffer used directly: every storage kind, the unsized [u8] included.  *)
(***************************************************************************)
AllKinds == BufferKinds \cup {"slice"}

\* let b = ..
SbNew ==
    \E kind \in AllKinds, n \in 0..MaxSize :
        /\ sb' = MkBuf(kind, n, 0)
        /\ did' = Did("buf.new", 0)
        /\ UNCHANGED <<poolVars, trace, rzVars, va>>

\* b.reset()
SbReset ==
    /\ sb.kind # "none"
    /\ sb' = BufReset(sb)
    /\ did' = Did("buf.reset", 0)
    /\ UNCHANGED <<poolVars, trace, rzVars, va>>

(***************************************************************************)
(* Pool variant A: shared ownership, weak tracking.  The pool state (the   *)
(* allocator and the idle stack) lives while a pool handle does; a lease   *)
(* owns its buffer and holds a weak reference to the pool state.           *)
(*   strong: live pool handles      idle: the idle stack, top last         *)
(*   held: buffers of live leases   gone: buffers finalized                *)
(*   made: buffers allocated        failed: a release has failed           *)
(***************************************************************************)
VaInit ==
    [strong |-> 0, built |-> FALSE, idle |-> <<>>, held |-> <<>>,
     gone |-> {}, made |-> 0, failed |-> FALSE, last |-> "none"]

\* Pool::new(allocator)
VaNew(v) == [v EXCEPT !.strong = 1, !.built = TRUE, !.last = "new"]

\* another handle to the same pool state
VaClone(v) == [v EXCEPT !.strong = v.strong + 1, !.last = "clone"]

\* a pool handle is destroyed; with the last one the pool state and its
\* idle buffers are destroyed
VaDropHandle(v) ==
    IF v.strong > 1
    THEN [v EXCEPT !.strong = v.strong - 1, !.last = "drop_handle"]
    ELSE [v EXCEPT !.strong = 0, !.idle = <<>>,
                   !.gone = v.gone \cup {v.idle[n] : n \in DOMAIN v.idle},
                   !.last = "drop_pool"]

\* lease(): pop the idle stack, else allocate; an allocator error is
\* returned and nothing changes
VaLease(v, ok) ==
    IF v.idle # <<>>
    THEN [v EXCEPT !.idle = SubSeq(v.idle, 1, Len(v.idle) - 1),
                   !.held = Append(v.held, v.idle[Len(v.idle)]),
                   !.last = "lease"]
    ELSE IF ok
    THEN [v EXCEPT !.made = v.made + 1,
                   !.held = Append(v.held, v.made + 1),
                   !.last = "lease"]
    ELSE [v EXCEPT !.last = "lease_err"]

\* a release that takes the pool state to be alive: it fails on an orphan
VaReleaseUnwrap(v, k) ==
    IF v.strong > 0
    THEN [v EXCEPT !.held = RemoveAt(v.held, k),
                   !.idle = Append(v.idle, v.held[k]),
                   !.last = "release"]
    ELSE [v EXCEPT !.held = RemoveAt(v.held, k), !.failed = TRUE,
                   !.last = "release_orphan"]

\* destruction of the k-th live lease: resolve the weak reference; push the
\* buffer onto the idle stack if the pool state is alive, else finalize it
VaRelease(v, k) ==
    IF v.strong > 0
    THEN [v EXCEPT !.held = RemoveAt(v.held, k),
                   !.idle = Append(v.idle, v.held[k]),
                   !.last = "release"]
    ELSE [v EXCEPT !.held = RemoveAt(v.held, k),
                   !.gone = v.gone \cup {v.held[k]},
                   !.last = "release_orphan"]

VaFrame == UNCHANGED <<poolVars, trace, rzVars, sb, did>>

APoolNew == ~va.built /\ va' = VaNew(va) /\ VaFrame

AHandleClone ==
    va.strong > 0 /\ va.strong < MaxHandles /\ va' = VaClone(va) /\ VaFrame

AHandleDrop == va.strong > 0 /\ va' = VaDropHandle(va) /\ VaFrame

ALease ==
    /\ va.strong > 0
    /\ \E ok \in BOOLEAN :
          /\ ok => va.made < MaxEntries
          /\ va' = VaLease(va, ok)
    /\ VaFrame

ALeaseDrop == \E k \in DOMAIN va.held : va' = VaRelease(va, k) /\ VaFrame

(***************************************************************************)
(* Specifications.                                                         *)
(***************************************************************************)
Init ==
    /\ PoolInit
    /\ trace = <<>>
    /\ RzInit
    /\ sb = NoBuffer
    /\ did = Did("none", 0)
    /\ va = VaInit

\* pool.lease()
Lease == LeaseStep /\ UNCHANGED <<trace, rz, rlast, extVars>>

\* drop(lease)
Drop == \E k \in DOMAIN leases : DropStep(k) /\ UNCHANGED <<trace, rz, rlast, extVars>>

Next == Lease \/ Drop

\* *lease = ..
Write ==
    \E k \in DOMAIN leases, v \in DataValues :
        /\ WriteStep(k, v)
        /\ did' = Did("lease.write", leases[k])
        /\ UNCHANGED <<trace, rz, rlast, sb, va>>

\* lease.reset()
LeaseReset ==
    \E k \in DOMAIN leases :
        /\ LeaseResetStep(k)
        /\ did' = Did("lease.reset", leases[k])
        /\ UNCHANGED <<trace, rz, rlast, sb, va>>

\* pool.lease() of a program that holds at most MaxHeld buffers at a time
LeaseHeld == Len(leases) < MaxHeld /\ Lease

\* the pool with holders that use their buffers
NextUse == LeaseHeld \/ Drop \/ Write \/ LeaseReset

SpecUse == Init /\ [][NextUse]_vars

Spec == Init /\ [][Next]_vars

\* one entry of the operation log: the operation, the index it returned or
\* released and the position of the lease among the live ones
Logged(pos) == [op |-> last'.op, index |-> last'.index, pos |-> pos]

\* the same operations, logged: a test program of at most MaxOps pool calls
LeaseLogged ==
    /\ Len(trace) < MaxOps
    /\ LeaseStep
    /\ trace' = Append(trace, Logged(Len(leases')))
    /\ UNCHANGED <<rzVars, extVars>>

DropLogged ==
    /\ Len(trace) < MaxOps
    /\ \E k \in DOMAIN leases :
         /\ DropStep(k)
         /\ trace' = Append(trace, Logged(k))
    /\ UNCHANGED <<rzVars, extVars>>

NextTrace == LeaseLogged \/ DropLogged

SpecTrace == Init /\ [][NextTrace]_vars

NextResize == RNew \/ RNewWithSize \/ RResize \/ RReset

\* a program that uses no pool: one pool type is enough
NoPool ==
    /\ bufType = [kind |-> "vec", len |-> MaxSize]
    /\ entries = <<>>
    /\ allocCalls = 0

InitResize == Init /\ NoPool

SpecResize == InitResize /\ [][NextResize]_vars

NextA == APoolNew \/ AHandleClone \/ AHandleDrop \/ ALease \/ ALeaseDrop

SpecA == InitResize /\ [][NextA]_vars

\* one program per behaviour: it uses a pool, a Resize or a plain buffer
NextBuf ==
    \/ rz = NoResize /\ sb = NoBuffer /\ NextUse
    \/ NoPool /\ sb = NoBuffer /\ NextResize
    \/ NoPool /\ rz = NoResize /\ (SbNew \/ SbReset)

SpecBuf == Init /\ [][NextBuf]_vars

(***************************************************************************)
(* Properties.                                                             *)
(***************************************************************************)
\* the indices met walking next_free from i, in order; the walk stops at
\* the sentinel, after an out-of-range index, or when `fuel` runs out
RECURSIVE Walk(_, _, _)
Walk(es, i, fuel) ==
    IF i = FREE_LIST_END \/ fuel = 0 THEN <<>>
    ELSE IF ~InBounds(es, i) THEN <<i>>
    ELSE <<i>> \o Walk(es, At(es, i).next_free, fuel - 1)

\* the free list of the pool: a walk longer than the slab has a repeat
FreeSeq == Walk(entries, free_head, Len(entries) + 1)

Range(s) == {s[n] : n \in DOMAIN s}

NoRepeat(s) == \A m, n \in DOMAIN s : m # n => s[m] # s[n]

LeaseOps == {"lease", "lease_err", "lease_panic"}

\* C1: no two live leases hold the same entry index, and no index held by a
\* live lease is reachable from free_head by following next_free.
C1_ExclusiveLease ==
    /\ NoRepeat(leases)
    /\ Range(leases) \cap Range(FreeSeq) = {}

\* C1 case: two leases are live while two entries are idle
C1_Witness ==
    /\ Len(leases) >= 2
    /\ Len(FreeSeq) >= 2
    /\ last.op = "lease"

\* C2: the indices reached by walking next_free from free_head are exactly
\* the indices of 0..entries.len()-1 with no live lease, each once and none
\* out of range.
C2_FreeListIntegrity ==
    /\ Range(FreeSeq) = (0..Len(entries) - 1) \ Range(leases)
    /\ NoRepeat(FreeSeq)
    /\ \A n \in DOMAIN FreeSeq : InBounds(entries, FreeSeq[n])

\* C2 case: a drop has just pushed onto a list that already held an entry,
\* with another lease still live
C2_Witness ==
    /\ last.op = "drop"
    /\ Len(FreeSeq) >= 2
    /\ Len(leases) >= 1

\* C3: when a lease with index i is dropped and the next pool operation is
\* lease(), that lease() succeeds with index i.
C3_LifoReuse ==
    (prev.op = "drop" /\ last.op \in LeaseOps) =>
        (last.op = "lease" /\ last.index = prev.index)

\* C3 case: a lease() directly after a drop, with an older idle entry it
\* could have taken instead
C3_Witness ==
    /\ prev.op = "drop"
    /\ last.op = "lease"
    /\ free_head # FREE_LIST_END
    /\ Len(leases) >= 2

\* C4 as stated: the total number of allocate invocations equals the
\* high-water mark of simultaneously live leases.
C4_TotalInvocationsEqualHighWater == allocCalls = highWater

\* C4 amended: the number of allocate invocations that returned a buffer
\* equals the high-water mark of simultaneously live leases; every other
\* invocation is one that failed.
C4_AllocationMinimality ==
    /\ allocOk = highWater
    /\ allocCalls >= allocOk

\* C4 case: leases were reissued from the free list (more lease() calls than
\* buffers) and an invocation failed
C4_Witness ==
    /\ highWater >= 2
    /\ last.op = "lease"
    /\ last.allocs = 0
    /\ allocCalls > allocOk

\* C5: when the free list is empty and the allocator fails, lease() returns
\* the allocator's error and leaves entries, free_head and the live leases
\* as they were.
C5_FailureLeavesPool ==
    [][last'.op = "lease_err" =>
          /\ free_head = FREE_LIST_END
          /\ ~allocRet'.ok
          /\ last'.err = allocRet'.err
          /\ entries' = entries
          /\ free_head' = free_head
          /\ leases' = leases]_vars

\* C5 case: a lease() failed on a pool that holds entries and a live lease
C5_Witness ==
    /\ last.op = "lease_err"
    /\ last.err = "Exhausted"
    /\ Len(entries) >= 2
    /\ Len(leases) >= 2

\* C6: a lease() invokes the allocator at most once, and exactly when no
\* entry is idle (free_head is the sentinel).
C6_AllocateOnlyOnMiss ==
    [][last'.op \in LeaseOps =>
          /\ allocCalls' - allocCalls \in {0, 1}
          /\ (allocCalls' - allocCalls = 1) <=> (free_head = FREE_LIST_END)]_vars

\* C6 case: a lease() was served from the free list after allocations
C6_Witness ==
    /\ last.op = "lease"
    /\ last.allocs = 0
    /\ allocCalls >= 2
    /\ free_head # FREE_LIST_END

\* C7: the number of entries never decreases and every entry keeps its
\* buffer; a drop removes no entry.
C7_SlabNeverShrinks ==
    [][/\ Len(entries') >= Len(entries)
       /\ \A n \in DOMAIN entries : entries'[n].buffer = entries[n].buffer
       /\ last'.op = "drop" => Len(entries') = Len(entries)]_vars

\* C7 case: the lease of the last entry of the slab has been dropped
C7_Witness ==
    /\ last.op = "drop"
    /\ Len(entries) >= 2
    /\ last.index = Len(entries) - 1

\* C8: every live lease's index is within the slab, so dropping it never
\* panics, whatever other leases are outstanding.
C8_ReleaseSucceeds ==
    /\ ~panicked
    /\ \A k \in DOMAIN leases : InBounds(entries, leases[k])

\* C8 case: a lease was dropped out of order, between two that stay live
C8_Witness ==
    /\ last.op = "drop"
    /\ \E j, k \in DOMAIN leases : leases[j] < last.index /\ last.index < leases[k]

\* lease A, lease B, drop A, lease C, drop B, drop C on a fresh pool
ScenarioABC ==
    /\ Len(trace) = 6
    /\ [n \in 1..6 |-> trace[n].op] =
          <<"lease", "lease", "drop", "lease", "drop", "drop">>
    /\ trace[3].pos = 1
    /\ trace[5].pos = 1
    /\ trace[6].pos = 1

\* C9: after lease A, lease B, drop A, lease C, drop B, drop C on a fresh
\* pool the allocator has been invoked exactly twice and C was issued the
\* index A held.
C9_Scenario ==
    ScenarioABC => (allocCalls = 2 /\ trace[4].index = trace[1].index)

\* C9 case: the scenario has run to its end
C9_Witness == ScenarioABC /\ leases = <<>>

\* x is the smaller of a and b
IsMin(x, a, b) == x \in {a, b} /\ x <= a /\ x <= b

\* C10: new_with_size(buf, n) yields min(size of buf, n); resize(m) yields
\* min(current length, m), so the length never grows (capacity 10:
\* new_with_size 6 gives 6, resize 8 gives 6, resize 3 gives 3).
C10_ResizeRatchet ==
    [][/\ rlast'.op = "new_with_size" =>
             /\ IsMin(rz'.len, BufSize(rz'.buf), rlast'.arg)
             /\ (BufSize(rz'.buf) = 10 /\ rlast'.arg = 6) => rz'.len = 6
       /\ rlast'.op = "resize" =>
             /\ IsMin(rz'.len, rz.len, rlast'.arg)
             /\ rz'.len <= rz.len
             /\ rlast'.arg > rz.len => rz'.len = rz.len
             /\ (rz.len = 6 /\ rlast'.arg = 8) => rz'.len = 6
             /\ (rz.len = 6 /\ rlast'.arg = 3) => rz'.len = 3]_vars

\* C10 case: a capacity-10 buffer clamped to 6 has been resized to 3
C10_Witness ==
    /\ BufSize(rz.buf) = 10
    /\ rlast = ROp("resize", 3, 6)
    /\ rz.len = 3

\* C11: the walk from free_head along next_free visits no entry twice, ends
\* at FREE_LIST_END within entries.len() steps, and every non-sentinel link
\* it follows is an index below entries.len() of an entry no lease holds.
C11_FreeListWellFormed ==
    LET w == Walk(entries, free_head, Len(entries) + 1) IN
    /\ NoRepeat(w)
    /\ Len(w) <= Len(entries)
    /\ \A n \in DOMAIN w :
          /\ InBounds(entries, w[n])
          /\ \A k \in DOMAIN leases : leases[k] # w[n]
    /\ w # <<>> =>
          /\ InBounds(entries, w[Len(w)])
          /\ At(entries, w[Len(w)]).next_free = FREE_LIST_END

\* C11 case: a list of three idle entries beside a live lease
C11_Witness ==
    /\ Len(FreeSeq) >= 3
    /\ Len(leases) >= 1
    /\ last.op = "drop"

\* a successful lease() has just run: one more lease is live
LeaseIssued == Len(leases') = Len(leases) + 1

\* C16: a free-list hit returns the old free_head, moves free_head to that
\* entry's former next_free and clears the entry's next_free; so every entry
\* held by a live lease has next_free = FREE_LIST_END.
C16_HitUnlinksHead ==
    /\ [](\A k \in DOMAIN leases :
             /\ InBounds(entries, leases[k])
             /\ At(entries, leases[k]).next_free = FREE_LIST_END)
    /\ [][(LeaseIssued /\ free_head # FREE_LIST_END) =>
             /\ last'.index = free_head
             /\ leases' = Append(leases, free_head)
             /\ free_head' = At(entries, free_head).next_free
             /\ entries' = SetNextFree(entries, free_head, FREE_LIST_END)]_vars

\* C16 case: a hit has unlinked a head that had a successor
C16_Witness ==
    /\ last.op = "lease"
    /\ last.allocs = 0
    /\ free_head # FREE_LIST_END
    /\ Len(leases) >= 2

\* C17: a miss with a successful allocation appends exactly one entry and
\* returns the number of entries before the call; a fresh pool is empty, so
\* first-time indices are issued 0, 1, 2, ... and the n-th buffer allocated
\* sits at index n - 1.
C17_MissAppends ==
    /\ entries = <<>> /\ free_head = FREE_LIST_END
    /\ [](\A n \in DOMAIN entries : entries[n].buffer.id = n)
    /\ [][(LeaseIssued /\ free_head = FREE_LIST_END) =>
             /\ Len(entries') = Len(entries) + 1
             /\ SubSeq(entries', 1, Len(entries)) = entries
             /\ entries'[Len(entries')] =
                   [buffer |-> allocRet'.buffer, next_free |-> FREE_LIST_END]
             /\ allocRet'.ok
             /\ last'.index = Len(entries)
             /\ leases' = Append(leases, Len(entries))
             /\ free_head' = FREE_LIST_END]_vars

\* C17 case: the third first-time index has been issued
C17_Witness ==
    /\ last.op = "lease"
    /\ last.allocs = 1
    /\ last.index = 2
    /\ Len(entries) = 3

\* C19: the number of entries equals the largest number of leases that were
\* live at once, and equals the live leases plus the indices on the free
\* list, also after failed allocator calls.
C19_SlabSize ==
    /\ Len(entries) = highWater
    /\ Len(entries) = Len(leases) + Len(FreeSeq)

\* C19 case: an allocator call has failed, and entries are both held and idle
C19_Witness ==
    /\ allocCalls > allocOk
    /\ Len(leases) >= 1
    /\ Len(FreeSeq) >= 1

\* C12 as stated: a lease() that appends an entry leaves the raw start
\* address of the buffer of every existing entry unchanged.
C12_StorageNeverMoves ==
    [][Len(entries') = Len(entries) + 1 =>
          \A n \in DOMAIN entries :
              Ptr(entries'[n].buffer, slab', n - 1) =
              Ptr(entries[n].buffer, slab, n - 1)]_vars

\* b2 is what reset() makes of b: a Vec<u8> has length 0 and its storage,
\* any other kind is untouched
ResetEffect(b, b2) ==
    IF b.kind = "vec"
    THEN b2.kind = "vec" /\ b2.id = b.id /\ b2.size = 0 /\ b2.cap = b.cap
    ELSE b2 = b

\* a holder has used its buffer: no pool operation has run
HolderStep == leases' = leases /\ allocCalls' = allocCalls

\* C14: reset() sets the length of a Vec<u8> to 0 without releasing its
\* storage and changes nothing on an array, a slice or a boxed slice; on a
\* Lease or a Resize it is reset() of the underlying buffer.
C14_Reset ==
    [][/\ did'.op = "buf.reset" => ResetEffect(sb, sb')
       /\ did'.op = "resize.reset" =>
             /\ ResetEffect(rz.buf, rz'.buf)
             /\ rz'.len = rz.len
       /\ (did'.op = "lease.reset" /\ HolderStep) =>
             /\ Len(entries') = Len(entries)
             /\ \A n \in DOMAIN entries :
                   /\ entries'[n].next_free = entries[n].next_free
                   /\ IF n = did'.index + 1
                      THEN ResetEffect(entries[n].buffer, entries'[n].buffer)
                      ELSE entries'[n].buffer = entries[n].buffer]_vars

\* C14 case: a written Vec<u8> buffer has been reset through its lease
C14_Witness ==
    /\ did.op = "lease.reset"
    /\ did.index \in Range(leases)
    /\ LET b == DerefLease(entries, did.index) IN
          b.kind = "vec" /\ b.size = 0 /\ b.cap = MaxSize /\ b.data = "b"

\* C15 as stated: the size a Resize reports never exceeds the size its
\* wrapped buffer reports.
C15_ViewWithinBuffer == ResizeSize(rz) <= BufSize(rz.buf)

\* C18: a drop of the lease with index i sets entries[i].next_free to the
\* old free_head and free_head to i and changes nothing else: every buffer
\* keeps its content and length, so a later lease() reissues it as left.
C18_DropFrame ==
    [][/\ Len(leases') = Len(leases) - 1 =>
             /\ free_head' = last'.index
             /\ Len(entries') = Len(entries)
             /\ \A n \in DOMAIN entries :
                   /\ entries'[n].buffer = entries[n].buffer
                   /\ entries'[n].next_free =
                         IF n = last'.index + 1 THEN free_head
                         ELSE entries[n].next_free
       /\ (LeaseIssued /\ free_head # FREE_LIST_END) =>
             DerefLease(entries', last'.index) = DerefLease(entries, free_head)]_vars

\* C18 case: a buffer that its holder wrote and reset lies idle, as left
C18_Witness ==
    /\ last.op = "drop"
    /\ free_head = last.index
    /\ Len(leases) >= 1
    /\ LET b == DerefLease(entries, last.index) IN
          b.kind = "vec" /\ b.size = 0 /\ b.data = "b"

\* Buffer::ptr and Buffer::size for Lease (lines 214-216, 222-224) of the
\* k-th live lease
LeasePtr(k) == Ptr(DerefLease(entries, leases[k]), slab, leases[k])
LeaseSize(k) == BufSize(DerefLease(entries, leases[k]))

\* C20: a lease's index is fixed while it lives and below entries.len();
\* the lease resolves to entries[index].buffer, two live leases resolve to
\* different entries, and no lease()/drop changes the entry a live lease
\* resolves to; a use through a lease touches that entry's buffer only.
C20_LeaseResolution ==
    /\ [](\A j, k \in DOMAIN leases :
             /\ InBounds(entries, leases[k])
             /\ j # k =>
                   /\ leases[j] # leases[k]
                   /\ DerefLease(entries, leases[j]).id #
                      DerefLease(entries, leases[k]).id
                   /\ LeasePtr(j) # LeasePtr(k))
    /\ [][/\ \/ leases' = leases
             \/ LeaseIssued /\ SubSeq(leases', 1, Len(leases)) = leases
             \/ \E k \in DOMAIN leases : leases' = RemoveAt(leases, k)
          /\ \A k \in DOMAIN leases :
                (\E j \in DOMAIN leases' : leases'[j] = leases[k]) =>
                    DerefLease(entries', leases[k]).id =
                    DerefLease(entries, leases[k]).id
          /\ (HolderStep /\ entries' # entries) =>
                /\ did'.index \in Range(leases)
                /\ entries' = SetBuffer(entries, did'.index,
                                        DerefLease(entries', did'.index))]_vars

\* C20 case: a lease that outlived a drop and a reissue of another entry is
\* used by its holder
C20_Witness ==
    /\ leases = <<1, 0>>
    /\ did = Did("lease.write", 1)
    /\ prev.op = "drop"
    /\ last.op = "lease"
    /\ DerefLease(entries, 1).data = "a"
    /\ DerefLease(entries, 0).data = "fresh"

\* C13: with every pool handle destroyed while a lease is live, dropping the
\* lease does not fail, recycles nothing and finalizes the buffer; the other
\* leases and buffers are untouched.
C13_OrphanTolerance ==
    /\ [](~va.failed)
    /\ [][(va.strong = 0 /\ Len(va'.held) < Len(va.held)) =>
             /\ va'.idle = <<>>
             /\ va'.strong = 0
             /\ va'.made = va.made
             /\ \E k \in DOMAIN va.held :
                   /\ va'.held = RemoveAt(va.held, k)
                   /\ va'.gone = va.gone \cup {va.held[k]}
                   /\ va.held[k] \notin va.gone]_vars

\* C13 case: an orphaned lease has been dropped while another is still live
C13_Witness ==
    /\ va.last = "release_orphan"
    /\ va.strong = 0
    /\ va.gone # {}
    /\ va.held # <<>>

\* the stack of released indices after the first n logged operations, top
\* last: a drop pushes its index, a successful lease() pops when it can
RECURSIVE StackAfter(_, _)
StackAfter(t, n) ==
    IF n = 0 THEN <<>>
    ELSE LET st == StackAfter(t, n - 1) IN
         IF t[n].op = "drop" THEN Append(st, t[n].index)
         ELSE IF t[n].op = "lease" /\ st # <<>> THEN SubSeq(st, 1, Len(st) - 1)
         ELSE st

\* the indices issued by the first n logged operations
Issued(t, n) == {t[m].index : m \in {x \in 1..n : t[x].op = "lease"}}

\* C21: the free list is a stack: after drops of i1, .., ik with no lease()
\* between, the next lease() calls with no drop between return ik, .., i1,
\* then the indices idle before those drops, most recently released first,
\* and only with none idle an index never issued before.
C21_FreeListIsStack ==
    /\ \A b \in DOMAIN trace, j \in 1..Len(trace) :
          (/\ b - j + 1 >= 1
           /\ b + j <= Len(trace)
           /\ \A n \in (b - j + 1)..b : trace[n].op = "drop"
           /\ \A n \in (b + 1)..(b + j) : trace[n].op \in LeaseOps) =>
              /\ trace[b + j].op = "lease"
              /\ trace[b + j].index = trace[b - j + 1].index
    /\ \A n \in DOMAIN trace :
          trace[n].op \in LeaseOps =>
              LET st == StackAfter(trace, n - 1) IN
              IF st # <<>>
              THEN trace[n].op = "lease" /\ trace[n].index = st[Len(st)]
              ELSE trace[n].op = "lease" =>
                      trace[n].index \notin Issued(trace, n - 1)
    /\ LET st == StackAfter(trace, Len(trace)) IN
          /\ Len(FreeSeq) = Len(st)
          /\ \A m \in DOMAIN FreeSeq : FreeSeq[m] = st[Len(st) + 1 - m]

\* C21 case: 0 and 1 are dropped in that order, the next leases return 1 and
\* then 0, and the one after them allocates
C21_Witness ==
    /\ Len(trace) >= 7
    /\ [n \in 1..7 |-> trace[n].op] =
          <<"lease", "lease", "drop", "drop", "lease", "lease", "lease">>
    /\ <<trace[3].index, trace[4].index>> = <<0, 1>>
    /\ <<trace[5].index, trace[6].index, trace[7].index>> = <<1, 0, 2>>

====
